---- MODULE Spec2Model ----
(***************************************************************************)
(* Model of three parts of the trustar client: the batch fault-isolation   *)
(* loop (first part), the time-based page generator of utils.py and the    *)
(* page and item generators behind the client methods (each introduced     *)
(* by its own comment further down).                                       *)
(*                                                                         *)
(* IndicatorClient.get_indicators_metadata_robust                          *)
(* (src/trustar/indicator_client.py, lines 268-372): the batch             *)
(* fault-isolation loop that submits lists of indicators to                *)
(* get_indicators_metadata and re-submits the failing ones in smaller      *)
(* lists.                                                                  *)
(*                                                                         *)
(* How the source is read.  The function body uses several names that are  *)
(* never bound; each is read as the name the surrounding lines bind:       *)
(*   line 305  the element expression over "i" is the comprehension over   *)
(*             the argument (value and type kept, the rest discarded);     *)
(*   line 308  "idicators" is "indicators";                                *)
(*   line 314  list().extend(singles).extend(multiples) is the list        *)
(*             singles followed by multiples;                              *)
(*   line 327  "indics_with_no_types" is "indics_no_types" of line 320;    *)
(*   line 355  "ts" is the client object (self);                           *)
(*   line 372  the return statement belongs to the function body.          *)
(* The loop header of line 333 reads list_of_indicator_lists, which is     *)
(* bound only inside the loop body, and fails_list, which line 330 has     *)
(* just emptied; the test is the end-of-round test that the source keeps   *)
(* as the disabled "break" of lines 366-370.  The model therefore runs     *)
(* the first round of each group and evaluates the test of line 333 after  *)
(* every round.  Everything else, including which list is concatenated in  *)
(* line 314, where n_indics_per_list is initialised and which list is      *)
(* returned in line 372, is as written.                                    *)
(***************************************************************************)
EXTENDS Integers, Sequences, FiniteSets, TLC

(* ---- bounds of the model ---- *)
MaxValue == 3      \* indicator values are 1..MaxValue
MaxLen == 3        \* longest argument list
\* line 300 sets 1000; the model runs the same code with a small maximum
MAX_N_INDICS_PER_LIST_SUBMITTED_FOR_METADATA == 4

VARIABLES
    indicators,                \* the argument, after line 305
    indics_with_types,         \* line 319
    indics_no_types,           \* line 320
    md_list,                   \* line 324
    n_indics_per_list,         \* line 325
    master_failures_list,      \* line 326
    l,                         \* position of the for loop of line 327 (1, 2, 3 = over)
    big_list_of_indicators,    \* line 329
    fails_list,                \* line 330
    list_of_indicator_lists,   \* line 339
    indic_list,                \* position of the for loop of line 353
    result,                    \* what the function returned
    pc,                        \* where the function is
    calls,                     \* history: every call of get_indicators_metadata
    rounds                     \* history: every round of the while loop

robustVars == <<indicators, indics_with_types, indics_no_types, md_list,
                n_indics_per_list, master_failures_list, l, big_list_of_indicators,
                fails_list, list_of_indicator_lists, indic_list, result, pc, calls,
                rounds>>

(* ---- the generator of utils.get_time_based_page_generator ---- *)
VARIABLES
    arg_from_time,             \* the argument from_time (line 97)
    arg_to_time,               \* the argument to_time (line 97)
    now,                       \* what get_current_time_millis returns (line 110)
    get_next_to_time,          \* which function the caller supplied
    gen,                       \* where the generator is
    from_time,                 \* the local from_time
    to_time,                   \* the local to_time
    page_result,               \* the local result of line 119
    get_page_calls,            \* history: every call of get_page
    next_to_time_calls,        \* history: every call of get_next_to_time
    emitted,                   \* history: every page the consumer received
    error,                     \* the exception the consumer received
    stops                      \* how often the consumer pulled after the end

timeVars == <<arg_from_time, arg_to_time, now, get_next_to_time, gen,
              from_time, to_time, page_result, get_page_calls,
              next_to_time_calls, emitted, error, stops>>

(* ---- the page and item generators of Page and CursorPage ---- *)
VARIABLES
    engine,                    \* which page generator the client method made
    fetcher,                   \* how the remote end answers
    start_page,                \* the argument start_page of the client method
    page_size,                 \* the argument page_size of the client method
    page_number,               \* the page number of the next request
    filters,                   \* the other arguments of the client method
    initial_cursor,            \* the argument cursor of the client method
    cursor,                    \* the cursor of the next request
    pgen,                      \* where the page generator is
    more_pages,                \* whether the last page asks for another one
    requests,                  \* history: every call of the page function
    pages_out,                 \* history: every page the page generator gave
    buffer,                    \* items of the current page not yet yielded
    items_out                  \* history: every item the consumer received

pageVars == <<engine, fetcher, start_page, page_size, page_number, filters,
              initial_cursor, cursor, pgen, more_pages, requests, pages_out,
              buffer, items_out>>

(* ---- two generators of get_time_based_page_generator side by side ---- *)
VARIABLES
    inputs,                    \* per generator: its arguments and collaborators
    frames,                    \* per generator: its local variables and history
    pulls                      \* per generator: how often its consumer pulled

twoVars == <<inputs, frames, pulls>>

(* ---- one call of utils.normalize_timestamp ---- *)
VARIABLES
    date_time,                 \* the argument
    current_time,              \* line 36
    normalized                 \* what the call returned

normVars == <<date_time, current_time, normalized>>

vars == <<robustVars, timeVars, pageVars, twoVars, normVars>>

\* an absent value (Python's None) and a present one
None == <<>>
Some(x) == <<x>>
Val(o) == o[1]

\* no generator of get_time_based_page_generator exists
TimeIdle ==
    /\ arg_from_time = None
    /\ arg_to_time = None
    /\ now = 0
    /\ get_next_to_time = "none"
    /\ gen = "none"
    /\ from_time = None
    /\ to_time = None
    /\ page_result = None
    /\ get_page_calls = <<>>
    /\ next_to_time_calls = <<>>
    /\ emitted = <<>>
    /\ error = None
    /\ stops = 0

\* no generator of Page or CursorPage exists
PagesIdle ==
    /\ engine = "none"
    /\ fetcher = "none"
    /\ start_page = 0
    /\ page_size = None
    /\ page_number = 0
    /\ filters = <<>>
    /\ initial_cursor = None
    /\ cursor = None
    /\ pgen = "none"
    /\ more_pages = FALSE
    /\ requests = <<>>
    /\ pages_out = <<>>
    /\ buffer = <<>>
    /\ items_out = <<>>

\* no pair of generators exists
TwoIdle ==
    /\ inputs = <<>>
    /\ frames = <<>>
    /\ pulls = <<>>

\* normalize_timestamp is not called
NormIdle ==
    /\ date_time = 0
    /\ current_time = 0
    /\ normalized = None

(* ---- indicators (src/trustar/models/indicator.py) ---- *)
NoType == "None"
IndicatorTypes == {"URL"}

\* Indicator objects as this function sees them: line 305 keeps value and type.
Indicator == [value : 1..MaxValue, type : IndicatorTypes \cup {NoType}]

\* "if i.type": None is false, a type name is true
HasType(i) == i.type # NoType

SeqsUpTo(S, k) == UNION {[1..m -> S] : m \in 0..k}

ToSet(s) == {s[k] : k \in 1..Len(s)}

Count(s, x) == Cardinality({k \in 1..Len(s) : s[k] = x})

(* ---- lines 307-314: deduplication ---- *)
values(inds) == [k \in 1..Len(inds) |-> inds[k].value]

IsSingle(inds, i) == Count(values(inds), i.value) = 1

singles(inds) == SelectSeq(inds, LAMBDA i : IsSingle(inds, i))

multiples(inds) == SelectSeq(inds, LAMBDA i : ~IsSingle(inds, i))

\* line 314 as read above: singles followed by multiples (not multiples_deduped)
deduped_list_of_indics(inds) == singles(inds) \o multiples(inds)

(* ---- lines 338-350: break the big list into small lists ---- *)
BreakIntoOneList(big, sublist, lists, n) == <<big>>

RECURSIVE BreakIntoSublists(_, _, _, _)
BreakIntoSublists(big, sublist, lists, n) ==
    IF big = <<>>
    THEN Append(lists, sublist)                    \* line 346
    ELSE LET s == Append(sublist, Head(big))       \* line 342
         IN  IF Len(s) >= n                        \* line 343
             THEN BreakIntoSublists(Tail(big), <<>>, Append(lists, s), n)
             ELSE BreakIntoSublists(Tail(big), s, lists, n)

\* lines 348-350
FilterEmptyKeepAll(lists) == lists

FilterEmpty(lists) == SelectSeq(lists, LAMBDA x : x # <<>>)

ListOfIndicatorLists(big, n) == FilterEmpty(BreakIntoSublists(big, <<>>, <<>>, n))

(* ---- lines 359-361 ---- *)
Halve(n) == IF n >= 2 THEN n \div 2 ELSE n

(* ---- line 333: the loop goes on while this is false ---- *)
LoopIsOver(fails, lists, n) ==
    \/ (Len(fails) = Len(lists) /\ n = 1)
    \/ Len(fails) = 0

(* ---- lines 245-266: get_indicators_metadata ----
   The call either raises (the endpoint answered with an error) or returns one
   Indicator per submitted indicator; the metadata carried by the returned
   objects is not modelled, so a result is identified by value and type.      *)
get_indicators_metadata(batch) == batch

(* ---- the function, step by step ---- *)
Init ==
    /\ indicators \in SeqsUpTo(Indicator, MaxLen)
    /\ indics_with_types = <<>>
    /\ indics_no_types = <<>>
    /\ md_list = <<>>
    /\ n_indics_per_list = MAX_N_INDICS_PER_LIST_SUBMITTED_FOR_METADATA
    /\ master_failures_list = <<>>
    /\ l = 1
    /\ big_list_of_indicators = <<>>
    /\ fails_list = <<>>
    /\ list_of_indicator_lists = <<>>
    /\ indic_list = 1
    /\ result = <<>>
    /\ pc = "dedup"
    /\ calls = <<>>
    /\ rounds = <<>>
    /\ TimeIdle
    /\ PagesIdle
    /\ TwoIdle
    /\ NormIdle

\* lines 305-326
DedupAndGroup ==
    /\ pc = "dedup"
    /\ LET d == deduped_list_of_indics(indicators)
       IN  /\ indics_with_types' = SelectSeq(d, HasType)
           /\ indics_no_types' = SelectSeq(d, LAMBDA i : ~HasType(i))
    /\ md_list' = <<>>
    /\ n_indics_per_list' = MAX_N_INDICS_PER_LIST_SUBMITTED_FOR_METADATA
    /\ master_failures_list' = <<>>
    /\ l' = 1
    /\ pc' = "for"
    /\ UNCHANGED <<indicators, big_list_of_indicators, fails_list,
                   list_of_indicator_lists, indic_list, result, calls, rounds>>
    /\ UNCHANGED <<timeVars, pageVars, twoVars, normVars>>

\* lines 327-330: the next group
ForGroup ==
    /\ pc = "for"
    /\ l <= 2
    /\ big_list_of_indicators' = IF l = 1 THEN indics_with_types ELSE indics_no_types
    /\ fails_list' = <<>>
    /\ pc' = "round"
    /\ UNCHANGED <<indicators, indics_with_types, indics_no_types, md_list,
                   n_indics_per_list, master_failures_list, l,
                   list_of_indicator_lists, indic_list, result, calls, rounds>>
    /\ UNCHANGED <<timeVars, pageVars, twoVars, normVars>>

\* lines 336-350: start a round
StartRound ==
    /\ pc = "round"
    /\ fails_list' = <<>>
    /\ list_of_indicator_lists' =
           ListOfIndicatorLists(big_list_of_indicators, n_indics_per_list)
    /\ indic_list' = 1
    /\ rounds' = Append(rounds, [l |-> l, n |-> n_indics_per_list,
                                 big |-> big_list_of_indicators])
    /\ pc' = "submit"
    /\ UNCHANGED <<indicators, indics_with_types, indics_no_types, md_list,
                   n_indics_per_list, master_failures_list, l,
                   big_list_of_indicators, result, calls>>
    /\ UNCHANGED <<timeVars, pageVars, twoVars, normVars>>

\* lines 353-355: the call returns
SubmitSucceeds ==
    /\ pc = "submit"
    /\ indic_list <= Len(list_of_indicator_lists)
    /\ LET batch == list_of_indicator_lists[indic_list]
       IN  /\ md_list' = md_list \o get_indicators_metadata(batch)
           /\ calls' = Append(calls, [batch |-> batch, ok |-> TRUE, l |-> l,
                                      round |-> Len(rounds)])
    /\ indic_list' = indic_list + 1
    /\ UNCHANGED <<indicators, indics_with_types, indics_no_types,
                   n_indics_per_list, master_failures_list, l,
                   big_list_of_indicators, fails_list, list_of_indicator_lists,
                   result, pc, rounds>>
    /\ UNCHANGED <<timeVars, pageVars, twoVars, normVars>>

\* lines 353-357: the call raises, whatever the exception
SubmitFails ==
    /\ pc = "submit"
    /\ indic_list <= Len(list_of_indicator_lists)
    /\ LET batch == list_of_indicator_lists[indic_list]
       IN  /\ fails_list' = fails_list \o batch
           /\ calls' = Append(calls, [batch |-> batch, ok |-> FALSE, l |-> l,
                                      round |-> Len(rounds)])
    /\ indic_list' = indic_list + 1
    /\ UNCHANGED <<indicators, indics_with_types, indics_no_types, md_list,
                   n_indics_per_list, master_failures_list, l,
                   big_list_of_indicators, list_of_indicator_lists, result, pc,
                   rounds>>
    /\ UNCHANGED <<timeVars, pageVars, twoVars, normVars>>

\* lines 359-364, the test of line 333 and, when the loop is over, line 371
EndRound ==
    /\ pc = "submit"
    /\ indic_list > Len(list_of_indicator_lists)
    /\ n_indics_per_list' = Halve(n_indics_per_list)
    /\ big_list_of_indicators' = fails_list
    /\ IF LoopIsOver(fails_list, list_of_indicator_lists, n_indics_per_list')
       THEN /\ master_failures_list' = master_failures_list \o fails_list
            /\ l' = l + 1
            /\ pc' = "for"
       ELSE /\ pc' = "round"
            /\ UNCHANGED <<master_failures_list, l>>
    /\ UNCHANGED <<indicators, indics_with_types, indics_no_types, md_list,
                   fails_list, list_of_indicator_lists, indic_list, result,
                   calls, rounds>>
    /\ UNCHANGED <<timeVars, pageVars, twoVars, normVars>>

\* line 372: return md_list, fails_list
ReturnValue(md, fails, master) == <<md, fails>>

Return ==
    /\ pc = "for"
    /\ l > 2
    /\ result' = ReturnValue(md_list, fails_list, master_failures_list)
    /\ pc' = "done"
    /\ UNCHANGED <<indicators, indics_with_types, indics_no_types, md_list,
                   n_indics_per_list, master_failures_list, l,
                   big_list_of_indicators, fails_list, list_of_indicator_lists,
                   indic_list, calls, rounds>>
    /\ UNCHANGED <<timeVars, pageVars, twoVars, normVars>>

Next ==
    \/ DedupAndGroup
    \/ ForGroup
    \/ StartRound
    \/ SubmitSucceeds
    \/ SubmitFails
    \/ EndRound
    \/ Return

Spec == Init /\ [][Next]_vars

(* ---- what the caller sees ---- *)
Returned == pc = "done"

succeeded == result[1]

failures == result[2]

\* the argument deduplicated by (value, type)
DedupedInput == ToSet(indicators)

NoRepeats(s) == \A j, k \in 1..Len(s) : j # k => s[j] # s[k]

\* The calls whose argument names no indicator twice: what the function does
\* there does not depend on the deduplication of lines 307-314.
InitDistinct == Init /\ NoRepeats(indicators)

SpecDistinct == InitDistinct /\ [][Next]_vars

\* the calls made so far are those of an endpoint that fails exactly on the
\* lists holding an indicator of B
FailsExactlyOn(B) ==
    \A k \in 1..Len(calls) : calls[k].ok <=> (ToSet(calls[k].batch) \cap B = {})

NeverFailed == \A k \in 1..Len(calls) : calls[k].ok

AlwaysFailed == \A k \in 1..Len(calls) : ~calls[k].ok

FailedAlone(x) ==
    \E k \in 1..Len(calls) : calls[k].batch = <<x>> /\ ~calls[k].ok

(* ---- the claims ---- *)

\* C1: when get_indicators_metadata_robust returns, the succeeded list and the
\* failures list partition the deduplicated argument: every deduplicated
\* indicator is in exactly one of the two lists and none is in both, for the
\* indicators with a type as for those without.
C1_Partition ==
    Returned =>
        /\ ToSet(succeeded) \cup ToSet(failures) = DedupedInput
        /\ ToSet(succeeded) \cap ToSet(failures) = {}

\* C2: for an argument of distinct indicators and a set B of bad ones, when
\* get_indicators_metadata fails exactly on the lists that hold an indicator
\* of B, the function returns succeeded = argument minus B and failures = B.
C2_IsolatesExactlyTheBad ==
    (Returned /\ NoRepeats(indicators)) =>
        \A B \in SUBSET DedupedInput :
            FailsExactlyOn(B) =>
                /\ ToSet(succeeded) = DedupedInput \ B
                /\ ToSet(failures) = B

\* C3: every indicator in the returned failures list was submitted in a list
\* of size exactly 1 and that submission failed; an indicator that only ever
\* failed as part of a list of size 2 or more is not reported as a failure.
C3_FailuresFailedAlone ==
    Returned => \A x \in ToSet(failures) : FailedAlone(x)

\* C4: if get_indicators_metadata never fails, the failures list is empty and
\* the succeeded list holds the result of every deduplicated indicator of the
\* argument exactly once.
C4_AllGood ==
    (Returned /\ NeverFailed) =>
        /\ failures = <<>>
        /\ ToSet(succeeded) = DedupedInput
        /\ \A x \in DedupedInput : Count(succeeded, x) = 1

\* C5: the argument is deduplicated by (value, type) before any submission:
\* an indicator given twice with the same value and type is submitted and
\* reported once, and two indicators with the same value and different types
\* are both kept.
C5_DedupByValueAndType ==
    pc # "dedup" =>
        /\ \A x \in DedupedInput :
               Count(indics_with_types \o indics_no_types, x) = 1
        /\ \A k \in 1..Len(calls) : NoRepeats(calls[k].batch)
        /\ Returned =>
               \A x \in DedupedInput :
                   Count(succeeded, x) + Count(failures, x) <= 1

\* C6: a failure of get_indicators_metadata is never propagated: the function
\* returns, and if every submission fails (every indicator is bad on its own)
\* the failures list covers the whole deduplicated argument and the succeeded
\* list is empty.
C6_AllBadAllReported ==
    (Returned /\ AlwaysFailed) =>
        /\ succeeded = <<>>
        /\ ToSet(failures) = DedupedInput

\* C7: the function terminates: the list size used for re-submitting the
\* failures shrinks until it is 1, and after a round with list size 1 no
\* further round of submissions is started for that group.
C7_NoRoundAfterSizeOne ==
    /\ \A j, k \in 1..Len(rounds) :
           (j < k /\ rounds[j].l = rounds[k].l) =>
               /\ rounds[k].n <= rounds[j].n
               /\ rounds[j].n # 1
    /\ (Returned \/ ENABLED Next)

\* C8: once an indicator has been submitted in a list of size 1 and that
\* submission failed, the indicator is never submitted again.
C8_FailedSingletonNotResubmitted ==
    \A j, k \in 1..Len(calls) :
        (j < k /\ Len(calls[j].batch) = 1 /\ ~calls[j].ok) =>
            calls[j].batch[1] \notin ToSet(calls[k].batch)

MaxTime == 2       \* the arguments from_time and to_time are in 0..MaxTime
MaxClock == 2      \* the clock reads 1..MaxClock seconds
MaxPages == 3      \* pages pulled when get_next_to_time is arbitrary
MaxStops == 1      \* pulls of the consumer after the generator has ended

\* line 14
DAY == 24 * 60 * 60 * 1000

\* lines 73-77: int(time.time()) * 1000
get_current_time_millis(seconds) == seconds * 1000

\* what get_page (a parameter) may return, and what it may raise
PageContents == {"page1", "page2"}
Errors == {"HTTPError", "ConnectionError"}

\* lines 127-128
ToTimeIncreased == "to_time should not increase between page iterations"

\* what get_next_to_time (a parameter) may return for a page fetched with
\* the window from..to: anything when the function is arbitrary (absent, a
\* later time, the same time, an earlier one, from_time, a time before
\* from_time), and to - 100 for the function that always steps back by 100
NextToTimes(fn, from, to) ==
    IF fn = "minus100"
    THEN {Some(Val(to) - 100)}
    ELSE {None} \cup {Some(t) : t \in {Val(to) + 1, Val(to), Val(to) - 1,
                                       Val(from), Val(from) - 1}}

\* lines 109-110
DefaultToTime(to, clock) == IF to = None THEN Some(clock) ELSE to

\* lines 113-114, with the to_time that lines 109-110 have left
DefaultFromTimeOfNow(from, to) ==
    IF from = None THEN Some(now - DAY) ELSE from

DefaultFromTime(from, to) ==
    IF from = None THEN Some(Val(to) - DAY) ELSE from

\* line 117
LoopTestStrict(from, to) == to # None /\ Val(from) < Val(to)

LoopTestIgnoresFrom(from, to) == to # None

LoopTest(from, to) == to # None /\ Val(from) <= Val(to)

\* lines 125-126
NeverIncreases(new_to_time, to) == FALSE

IncreasesByMoreThanOne(new_to_time, to) ==
    new_to_time # None /\ Val(new_to_time) > Val(to) + 1

Increases(new_to_time, to) ==
    new_to_time # None /\ Val(new_to_time) > Val(to)

\* line 119: one call of get_page; raised is the exception, if it raised one
CallGetPageTwice(made, from, to, raised) ==
    made \o << [from_time |-> from, to_time |-> to, raised |-> raised],
                [from_time |-> from, to_time |-> to, raised |-> raised] >>

CallGetPage(made, from, to, raised) ==
    Append(made, [from_time |-> from, to_time |-> to, raised |-> raised])

\* line 119 has no handler: the exception of get_page leaves the generator
GetPageRaisedSwallowed(e) == [gen |-> "done", error |-> None]

GetPageRaised(e) == [gen |-> "raised", error |-> Some(e)]

\* the function get_indicators_metadata_robust is not running
RobustIdle ==
    /\ indicators = <<>>
    /\ indics_with_types = <<>>
    /\ indics_no_types = <<>>
    /\ md_list = <<>>
    /\ n_indics_per_list = MAX_N_INDICS_PER_LIST_SUBMITTED_FOR_METADATA
    /\ master_failures_list = <<>>
    /\ l = 1
    /\ big_list_of_indicators = <<>>
    /\ fails_list = <<>>
    /\ list_of_indicator_lists = <<>>
    /\ indic_list = 1
    /\ result = <<>>
    /\ pc = "none"
    /\ calls = <<>>
    /\ rounds = <<>>

\* the generator object exists and none of its body has run
InitTime ==
    /\ RobustIdle
    /\ PagesIdle
    /\ TwoIdle
    /\ NormIdle
    /\ \/ /\ get_next_to_time = "any"
          /\ arg_from_time \in {None} \cup {Some(t) : t \in 0..MaxTime}
          /\ arg_to_time \in {None} \cup {Some(t) : t \in 0..MaxTime}
       \/ /\ get_next_to_time = "minus100"
          /\ arg_from_time = Some(100)
          /\ arg_to_time = Some(1000)
    /\ now \in {get_current_time_millis(s) : s \in 1..MaxClock}
    /\ gen = "created"
    /\ from_time = arg_from_time
    /\ to_time = arg_to_time
    /\ page_result = None
    /\ get_page_calls = <<>>
    /\ next_to_time_calls = <<>>
    /\ emitted = <<>>
    /\ error = None
    /\ stops = 0

\* what a next() has when it reaches the test of line 117: on the first
\* next(), the defaults of lines 109-114; on a later one, the new_to_time of
\* line 123 (fatal when line 126 holds, else assigned by line 130)
Entries ==
    IF gen = "created"
    THEN LET to == DefaultToTime(to_time, now)
         IN  {[from |-> DefaultFromTime(from_time, to), to |-> to,
               ntt |-> <<>>, fatal |-> FALSE]}
    ELSE {[from |-> from_time, to |-> new_to_time,
           ntt |-> <<[result |-> page_result, to_time |-> to_time,
                      returned |-> new_to_time]>>,
           fatal |-> Increases(new_to_time, to_time)] :
          new_to_time \in NextToTimes(get_next_to_time, from_time, to_time)}

\* lines 117-121: the test holds, get_page returns, the page is yielded
PullYields ==
    /\ gen \in {"created", "suspended"}
    /\ get_next_to_time = "any" => Len(emitted) < MaxPages
    /\ \E e \in Entries, p \in PageContents :
          /\ ~e.fatal
          /\ LoopTest(e.from, e.to)
          /\ from_time' = e.from
          /\ to_time' = e.to
          /\ next_to_time_calls' = next_to_time_calls \o e.ntt
          /\ get_page_calls' = CallGetPage(get_page_calls, e.from, e.to, None)
          /\ page_result' = Some(p)
          /\ emitted' = Append(emitted, p)
    /\ gen' = "suspended"
    /\ UNCHANGED <<arg_from_time, arg_to_time, now, get_next_to_time, error,
                   stops, robustVars, pageVars,
                   twoVars, normVars>>

\* lines 117-119: the test holds and get_page raises
PullGetPageRaises ==
    /\ gen \in {"created", "suspended"}
    /\ \E e \in Entries, err \in Errors :
          /\ ~e.fatal
          /\ LoopTest(e.from, e.to)
          /\ from_time' = e.from
          /\ to_time' = e.to
          /\ next_to_time_calls' = next_to_time_calls \o e.ntt
          /\ get_page_calls' =
                CallGetPage(get_page_calls, e.from, e.to, Some(err))
          /\ gen' = GetPageRaised(err).gen
          /\ error' = GetPageRaised(err).error
    /\ UNCHANGED <<arg_from_time, arg_to_time, now, get_next_to_time,
                   page_result, emitted, stops, robustVars, pageVars,
                   twoVars, normVars>>

\* line 117: the test fails and the generator returns
PullEnds ==
    /\ gen \in {"created", "suspended"}
    /\ \E e \in Entries :
          /\ ~e.fatal
          /\ ~LoopTest(e.from, e.to)
          /\ from_time' = e.from
          /\ to_time' = e.to
          /\ next_to_time_calls' = next_to_time_calls \o e.ntt
    /\ gen' = "done"
    /\ UNCHANGED <<arg_from_time, arg_to_time, now, get_next_to_time,
                   page_result, get_page_calls, emitted, error, stops,
                   robustVars, pageVars,
                   twoVars, normVars>>

\* lines 123-128: get_next_to_time returns a later time
PullRaisesIncrease ==
    /\ gen = "suspended"
    /\ \E e \in Entries :
          /\ e.fatal
          /\ next_to_time_calls' = next_to_time_calls \o e.ntt
    /\ gen' = "raised"
    /\ error' = Some(ToTimeIncreased)
    /\ UNCHANGED <<arg_from_time, arg_to_time, now, get_next_to_time,
                   from_time, to_time, page_result, get_page_calls, emitted,
                   stops, robustVars, pageVars,
                   twoVars, normVars>>

\* a next() on a generator that has returned or raised: StopIteration
PullAfterEnd ==
    /\ gen \in {"done", "raised"}
    /\ stops < MaxStops
    /\ stops' = stops + 1
    /\ UNCHANGED <<arg_from_time, arg_to_time, now, get_next_to_time, gen,
                   from_time, to_time, page_result, get_page_calls,
                   next_to_time_calls, emitted, error, robustVars, pageVars,
                   twoVars, normVars>>

NextTime ==
    \/ PullYields
    \/ PullGetPageRaises
    \/ PullEnds
    \/ PullRaisesIncrease
    \/ PullAfterEnd

SpecTime == InitTime /\ [][NextTime]_vars

(* ---- what the consumer of the time-based generator sees ---- *)

\* the arguments after the defaults of lines 109-114
EffectiveToTime == IF arg_to_time = None THEN now ELSE Val(arg_to_time)

EffectiveFromTime ==
    IF arg_from_time = None THEN EffectiveToTime - DAY ELSE Val(arg_from_time)

\* get_next_to_time returned a time later than the to_time it was given
ReturnedLater(c) ==
    c.returned # None /\ Val(c.returned) > Val(c.to_time)

\* C11: whenever get_next_to_time returns a value greater than the to_time
\* of the page just fetched, the generator raises the fatal error, and it
\* has emitted no page and called get_page no more since that page.
C11_FatalOnIncrease ==
    \A i \in DOMAIN next_to_time_calls :
        ReturnedLater(next_to_time_calls[i]) =>
            /\ gen = "raised"
            /\ error = Some(ToTimeIncreased)
            /\ Len(get_page_calls) = i
            /\ Len(emitted) = i

C11_Witness ==
    /\ next_to_time_calls # <<>>
    /\ ReturnedLater(next_to_time_calls[Len(next_to_time_calls)])
    /\ gen = "raised"
    /\ stops > 0

\* the generator made with from_time = 100, to_time = 1000 and the
\* get_next_to_time that always returns the previous to_time minus 100
SteppingBack100 ==
    /\ get_next_to_time = "minus100"
    /\ arg_from_time = Some(100)
    /\ arg_to_time = Some(1000)

\* C12 as stated: with from_time = 100, to_time = 1000 and get_next_to_time
\* always returning the previous to_time minus 100, the generator ends
\* after emitting exactly 9 pages.
C12_NinePages ==
    (SteppingBack100 /\ gen = "done") => Len(emitted) = 9

\* C12, amended: with these arguments the generator ends after emitting
\* exactly 10 pages, fetched with the to_time values 1000, 900, ..., 100
\* and from_time 100, and it never emits more than 10.
C12_TenPages ==
    SteppingBack100 =>
        /\ Len(emitted) <= 10
        /\ \A i \in DOMAIN get_page_calls :
              /\ get_page_calls[i].from_time = Some(100)
              /\ get_page_calls[i].to_time = Some(1000 - 100 * (i - 1))
        /\ gen = "done" => Len(emitted) = 10

C12_Witness ==
    SteppingBack100 /\ gen = "done" /\ Len(emitted) = 10

\* C13: once running, the generator has ended normally exactly when the
\* to_time for the next query is None or below from_time; every call of
\* get_page has from_time <= to_time; and with an initial from_time above
\* the initial to_time no page is emitted and get_page is never called.
C13_EndsExactlyWhenExhausted ==
    /\ gen # "created" =>
          (gen = "done" <=>
              (to_time = None \/ Val(to_time) < Val(from_time)))
    /\ \A i \in DOMAIN get_page_calls :
          Val(get_page_calls[i].from_time) <= Val(get_page_calls[i].to_time)
    /\ EffectiveFromTime > EffectiveToTime =>
          get_page_calls = <<>> /\ emitted = <<>>

C13_Witness ==
    /\ gen = "done"
    /\ emitted # <<>>
    /\ to_time # None
    /\ Val(to_time) < Val(from_time)

\* C14: an omitted to_time is the current time and an omitted from_time is
\* exactly one day (24*60*60*1000 ms) before the effective to_time, also
\* when to_time was given; the first call of get_page has that window,
\* (now - DAY, now) with both defaults.
C14_Defaults ==
    gen # "created" =>
        /\ arg_to_time = None /\ get_page_calls # <<>> =>
              get_page_calls[1].to_time = Some(now)
        /\ arg_from_time = None =>
              from_time = Some(EffectiveToTime - 86400000)
        /\ get_page_calls # <<>> =>
              /\ get_page_calls[1].from_time = Some(EffectiveFromTime)
              /\ get_page_calls[1].to_time = Some(EffectiveToTime)
        /\ arg_from_time = None /\ arg_to_time = None
              /\ get_page_calls # <<>> =>
              /\ get_page_calls[1].from_time = Some(now - 86400000)
              /\ get_page_calls[1].to_time = Some(now)

C14_Witness ==
    /\ arg_from_time = None
    /\ arg_to_time # None
    /\ Val(arg_to_time) # now
    /\ get_page_calls # <<>>
    /\ get_page_calls[1].from_time = Some(Val(arg_to_time) - 86400000)

\* no call of get_page has raised
NoGetPageRaised ==
    \A i \in DOMAIN get_page_calls : get_page_calls[i].raised = None

C16_GetPageErrorAborts ==
    \A i \in DOMAIN get_page_calls :
        get_page_calls[i].raised # None =>
            /\ i = Len(get_page_calls)
            /\ gen = "raised"
            /\ error = get_page_calls[i].raised
            /\ Len(emitted) = i - 1

C16_Witness ==
    /\ gen = "raised"
    /\ emitted # <<>>
    /\ Len(get_page_calls) = Len(emitted) + 1
    /\ get_page_calls[Len(get_page_calls)].raised = Some("HTTPError")
    /\ error = Some("HTTPError")
    /\ stops > 0

(***************************************************************************)
(* The page and item generators behind the client methods                  *)
(* (src/trustar/indicator_client.py, lines 57-117 and 150-219, 403-410,    *)
(* 509-546; src/trustar/phishing_triage_client.py, lines 22-115).  The     *)
(* client methods build the page function and hand it to                   *)
(* Page.get_page_generator or CursorPage.get_cursor_based_page_generator,  *)
(* and hand the page generator to get_generator.  The module               *)
(* trustar/models/page.py that defines Page and CursorPage is not part of  *)
(* the sources; the three generators are modelled from the design          *)
(* document (sections 4.1, 4.2 and 2, "Flattening Adapter"), the client    *)
(* methods from their code.                                                *)
(***************************************************************************)
MaxStart == 1        \* the argument start_page is in 0..MaxStart
MaxPageSize == 2     \* a page of an arbitrary remote end has 0..MaxPageSize items
MaxPagePulls == 2    \* pages pulled from an arbitrary remote end

\* the items of a page: n items, "a" and "b" in turn, starting with either
ItemList(n, k) == [i \in 1..n |-> IF (i + k) % 2 = 0 THEN "a" ELSE "b"]

ItemLists == {ItemList(n, k) : n \in 0..MaxPageSize, k \in 0..1}

\* what Page.from_dict and CursorPage.from_dict make of a response
OffsetPages ==
    {[items |-> its, has_next |-> h, next_cursor |-> None] :
        its \in ItemLists, h \in {None, Some(TRUE), Some(FALSE)}}

CursorPages ==
    {[items |-> its, has_next |-> None, next_cursor |-> c] :
        its \in ItemLists, c \in {None, Some(""), Some("a"), Some("b")}}

\* the page the remote end returns to the k-th request: any page; pages of
\* the sizes 5, 5, 5, 2 and then empty ones; pages with the cursors "a",
\* "b", "" and then empty ones without a cursor
Answers(e, f, k) ==
    CASE f = "sizes5552" ->
            {[items |-> ItemList(IF k <= 4 THEN <<5, 5, 5, 2>>[k] ELSE 0, 0),
              has_next |-> None, next_cursor |-> None]}
      [] f = "cursors_ab" ->
            {[items |-> IF k <= 3 THEN ItemList(1, k) ELSE <<>>,
              has_next |-> None,
              next_cursor |-> IF k <= 3 THEN Some(<<"a", "b", "">>[k])
                              ELSE None]}
      [] OTHER -> IF e = "Page" THEN OffsetPages ELSE CursorPages

\* indicator_client.py line 117 (and 175, 520, 535, 546): what the client
\* method hands to Page.get_page_generator
PageGeneratorArgsFromZero(start, size) ==
    [start_page |-> 0, page_size |-> size]

PageGeneratorArgs(start, size) == [start_page |-> start, page_size |-> size]

\* the call get_page(page_number=..., page_size=...) of the page generator
get_page(number, size) == [page_number |-> number, page_size |-> size]

\* section 4.1: the page is the last one
OffsetExhausted(page, size) ==
    \/ size # None /\ Len(page.items) < Val(size)
    \/ page.has_next = Some(FALSE)
    \/ Len(page.items) = 0

\* section 4.2: the page is the last one
CursorExhaustedOnlyWhenEmpty(page) == page.items = <<>>

CursorExhausted(page) ==
    \/ page.next_cursor = None
    \/ page.next_cursor = Some("")
    \/ page.items = <<>>

\* phishing_triage_client.py lines 22-29
keep_nones(d) == [k \in DOMAIN d |-> IF d[k] = None THEN "null" ELSE Val(d[k])]

remove_nones(d) == [k \in {j \in DOMAIN d : d[j] # None} |-> Val(d[k])]

\* phishing_triage_client.py lines 76-83 and 104-111: the body of the
\* request that the page function sends for the filters and a cursor
get_phishing_submissions_page(f, c) ==
    remove_nones([from |-> f.from, to |-> f.to,
                  priorityEventScore |-> f.priorityEventScore,
                  enclaveIds |-> f.enclaveIds, status |-> f.status,
                  cursor |-> c])

\* the filter arguments of get_phishing_submissions (lines 31-32)
Filters ==
    {[from |-> f, to |-> t, priorityEventScore |-> None, enclaveIds |-> None,
      status |-> st] :
        f \in {None, Some("1000")}, t \in {None, Some("2000")},
        st \in {None, Some("UNRESOLVED")}}
    \cup {[from |-> Some("1000"), to |-> Some("2000"),
           priorityEventScore |-> Some("3"), enclaveIds |-> Some("e1"),
           status |-> Some("CONFIRMED")]}

\* get_generator: the item is yielded
YieldedItemsOnce(out, item) ==
    IF \E i \in DOMAIN out : out[i] = item THEN out ELSE Append(out, item)

YieldedItems(out, item) == Append(out, item)

\* the client method has made its generators and nothing has been pulled
InitPages ==
    /\ RobustIdle
    /\ TimeIdle
    /\ TwoIdle
    /\ NormIdle
    /\ \/ /\ engine = "Page"
          /\ \/ /\ fetcher = "any"
                /\ page_size \in {None} \cup {Some(n) : n \in 1..MaxPageSize}
             \/ /\ fetcher = "sizes5552"
                /\ page_size = Some(5)
          /\ start_page \in 0..MaxStart
          /\ page_number = PageGeneratorArgs(start_page, page_size).start_page
          /\ filters = <<>>
          /\ initial_cursor = None
       \/ /\ engine = "CursorPage"
          /\ \/ /\ fetcher = "any"
                /\ initial_cursor \in {None, Some(""), Some("c")}
             \/ /\ fetcher = "cursors_ab"
                /\ initial_cursor \in {None, Some("c")}
          /\ filters \in Filters
          /\ start_page = 0
          /\ page_size = None
          /\ page_number = 0
    /\ cursor = initial_cursor
    /\ pgen = "created"
    /\ more_pages = TRUE
    /\ requests = <<>>
    /\ pages_out = <<>>
    /\ buffer = <<>>
    /\ items_out = <<>>

\* section 4.1: one demand on the offset page generator that gives a page
OffsetPullYields ==
    /\ engine = "Page"
    /\ pgen \in {"created", "suspended"}
    /\ more_pages
    /\ buffer = <<>>
    /\ fetcher = "any" => Len(pages_out) < MaxPagePulls
    /\ LET size == PageGeneratorArgs(start_page, page_size).page_size
       IN  \E page \in Answers(engine, fetcher, Len(requests) + 1) :
              /\ requests' = Append(requests, get_page(page_number, size))
              /\ pages_out' = Append(pages_out, page)
              /\ buffer' = page.items
              /\ more_pages' = ~OffsetExhausted(page, size)
    /\ page_number' = page_number + 1
    /\ pgen' = "suspended"
    /\ UNCHANGED <<engine, fetcher, start_page, page_size, filters,
                   initial_cursor, cursor, items_out, robustVars, timeVars,
                   twoVars, normVars>>

\* section 4.2: one demand on the cursor page generator that gives a page
CursorPullYields ==
    /\ engine = "CursorPage"
    /\ pgen \in {"created", "suspended"}
    /\ more_pages
    /\ buffer = <<>>
    /\ fetcher = "any" => Len(pages_out) < MaxPagePulls
    /\ \E page \in Answers(engine, fetcher, Len(requests) + 1) :
          /\ requests' =
                Append(requests, get_phishing_submissions_page(filters, cursor))
          /\ pages_out' = Append(pages_out, page)
          /\ buffer' = page.items
          /\ more_pages' = ~CursorExhausted(page)
          /\ cursor' = page.next_cursor
    /\ pgen' = "suspended"
    /\ UNCHANGED <<engine, fetcher, start_page, page_size, page_number,
                   filters, initial_cursor, items_out, robustVars, timeVars,
                   twoVars, normVars>>

\* sections 4.1 and 4.2: a demand after the last page ends the generator
PagePullEnds ==
    /\ pgen = "suspended"
    /\ ~more_pages
    /\ buffer = <<>>
    /\ pgen' = "done"
    /\ UNCHANGED <<engine, fetcher, start_page, page_size, page_number,
                   filters, initial_cursor, cursor, more_pages, requests,
                   pages_out, buffer, items_out, robustVars, timeVars,
                   twoVars, normVars>>

\* get_generator: the next item of the current page is yielded
YieldItem ==
    /\ buffer # <<>>
    /\ items_out' = YieldedItems(items_out, Head(buffer))
    /\ buffer' = Tail(buffer)
    /\ UNCHANGED <<engine, fetcher, start_page, page_size, page_number,
                   filters, initial_cursor, cursor, pgen, more_pages,
                   requests, pages_out, robustVars, timeVars,
                   twoVars, normVars>>

NextPages ==
    \/ OffsetPullYields
    \/ CursorPullYields
    \/ PagePullEnds
    \/ YieldItem

SpecPages == InitPages /\ [][NextPages]_vars

(* ---- what the consumer of the page and item generators sees ---- *)

\* a page with fewer items than the page size asked for, with
\* has_next false, or with no items
LastOffsetPage(p) ==
    \/ page_size # None /\ Len(p.items) < Val(page_size)
    \/ p.has_next = Some(FALSE)
    \/ p.items = <<>>

\* C17: the offset page generator calls the page function with the page
\* numbers start_page, start_page + 1, ... and the page size it was given,
\* one call per page; a page with fewer items than page_size, with
\* has_next false or with no items is the last page and the last call, and
\* the generator ends only after such a page; for pages of the sizes
\* 5, 5, 5, 2 and page_size 5 it ends after exactly 4 pages and 4 calls.
C17_OffsetPages ==
    engine = "Page" =>
        /\ \A i \in DOMAIN requests :
              requests[i] = [page_number |-> start_page + i - 1,
                             page_size |-> page_size]
        /\ Len(requests) = Len(pages_out)
        /\ \A i \in DOMAIN pages_out :
              LastOffsetPage(pages_out[i]) => i = Len(pages_out)
        /\ pgen = "done" =>
              pages_out # <<>> /\ LastOffsetPage(pages_out[Len(pages_out)])
        /\ fetcher = "sizes5552" =>
              /\ Len(requests) <= 4
              /\ pgen = "done" => Len(pages_out) = 4 /\ Len(requests) = 4

C17_Witness ==
    /\ engine = "Page"
    /\ fetcher = "sizes5552"
    /\ start_page = 1
    /\ pgen = "done"
    /\ Len(pages_out) = 4
    /\ requests[4].page_number = 4

\* a page whose next cursor is absent or empty, or that has no items
LastCursorPage(p) ==
    p.next_cursor \in {None, Some("")} \/ Len(p.items) = 0

\* C18: the cursor page generator makes one call per page; a page whose
\* next cursor is empty or absent or whose item list is empty is the last
\* page and the last call, and the generator ends only after such a page;
\* for pages with the cursors "a", "b", "" it makes exactly 3 calls.
C18_CursorPages ==
    engine = "CursorPage" =>
        /\ Len(requests) = Len(pages_out)
        /\ \A i \in DOMAIN pages_out :
              LastCursorPage(pages_out[i]) => i = Len(pages_out)
        /\ pgen = "done" =>
              pages_out # <<>> /\ LastCursorPage(pages_out[Len(pages_out)])
        /\ fetcher = "cursors_ab" =>
              /\ Len(requests) <= 3
              /\ pgen = "done" => Len(requests) = 3

C18_Witness ==
    /\ engine = "CursorPage"
    /\ fetcher = "cursors_ab"
    /\ pgen = "done"
    /\ Len(requests) = 3
    /\ pages_out[3].next_cursor = Some("")
    /\ pages_out[3].items # <<>>

\* the cursor that the i-th request has to carry
CursorToSend(i) ==
    IF i = 1 THEN initial_cursor ELSE pages_out[i - 1].next_cursor

\* C19: the first request carries the caller's initial cursor, and no
\* cursor field at all when that is None; every later request carries
\* exactly the next cursor of the page before it; and every request carries
\* the caller's other filters unchanged, those given and no others.
C19_CursorThreaded ==
    engine = "CursorPage" =>
        \A i \in DOMAIN requests :
            /\ DOMAIN requests[i] \subseteq DOMAIN filters \cup {"cursor"}
            /\ "cursor" \in DOMAIN requests[i] <=> CursorToSend(i) # None
            /\ CursorToSend(i) # None =>
                  requests[i]["cursor"] = Val(CursorToSend(i))
            /\ i > 1 => CursorToSend(i) # None
            /\ \A k \in DOMAIN filters :
                  IF filters[k] = None
                  THEN k \notin DOMAIN requests[i]
                  ELSE k \in DOMAIN requests[i]
                       /\ requests[i][k] = Val(filters[k])

C19_Witness ==
    /\ engine = "CursorPage"
    /\ initial_cursor = None
    /\ filters.status # None
    /\ filters.from = None
    /\ Len(requests) = 2
    /\ "cursor" \notin DOMAIN requests[1]
    /\ requests[2]["cursor"] = "b"
    /\ pages_out[1].next_cursor = Some("b")

\* the items of the pages, page after page
RECURSIVE ItemsOf(_)
ItemsOf(pages) ==
    IF pages = <<>> THEN <<>>
    ELSE Head(pages).items \o ItemsOf(Tail(pages))

\* C20: the item generator yields exactly the items of the pages of its
\* page generator, in order, none dropped and none twice: what it has
\* yielded, followed by what is left of the current page, is the items of
\* the pages so far, and all of them once the page generator has ended.
C20_ItemsOfPagesInOrder ==
    engine \in {"Page", "CursorPage"} =>
        /\ items_out \o buffer = ItemsOf(pages_out)
        /\ pgen = "done" => items_out = ItemsOf(pages_out)

C20_Witness ==
    /\ pgen = "done"
    /\ Len(pages_out) = 2
    /\ Len(items_out) = 3
    /\ items_out[1] = items_out[3]
    /\ items_out = ItemsOf(pages_out)

(***************************************************************************)
(* get_indicators_metadata_robust, further properties.                     *)
(***************************************************************************)

\* lines 327-333 and 371 with the loop header where it is written: the
\* test of line 333 is made before the first round, with the fails_list
\* that line 330 has just emptied, so the body of the loop is skipped
ForGroupAsWritten ==
    /\ pc = "for"
    /\ l <= 2
    /\ big_list_of_indicators' =
           IF l = 1 THEN indics_with_types ELSE indics_no_types
    /\ fails_list' = <<>>
    /\ LoopIsOver(fails_list', list_of_indicator_lists, n_indics_per_list)
    /\ master_failures_list' = master_failures_list \o fails_list'
    /\ l' = l + 1
    /\ UNCHANGED <<indicators, indics_with_types, indics_no_types, md_list,
                   n_indics_per_list, list_of_indicator_lists, indic_list,
                   result, pc, calls, rounds>>
    /\ UNCHANGED <<timeVars, pageVars, twoVars, normVars>>

NextAsWritten ==
    \/ DedupAndGroup
    \/ ForGroupAsWritten
    \/ Return

\* the function with the loop header of line 333 tested on entry
SpecAsWritten == Init /\ [][NextAsWritten]_vars

\* the indicator x was in a list submitted to get_indicators_metadata
Submitted(x) == \E k \in 1..Len(calls) : x \in ToSet(calls[k].batch)

\* C23: when get_indicators_metadata_robust returns for a non-empty
\* argument, every deduplicated indicator was in at least one list
\* submitted to get_indicators_metadata.
C23_EveryItemSubmitted ==
    Returned => \A x \in DedupedInput : Submitted(x)

InNextRound(j, k) ==
    /\ calls[k].round = calls[j].round + 1
    /\ calls[k].l = calls[j].l

\* C25: when the function has returned, every submitted list of more than
\* one indicator that failed was submitted next as two lists, its halves
\* of floor(k/2) and ceil(k/2) items, and was never submitted again as it
\* was.
C25_FailedBatchIsHalved ==
    Returned =>
        \A j \in 1..Len(calls) :
            (~calls[j].ok /\ Len(calls[j].batch) > 1) =>
                /\ \A k \in 1..Len(calls) :
                      k > j => calls[k].batch # calls[j].batch
                /\ \E a, b \in 1..Len(calls) :
                      /\ InNextRound(j, a)
                      /\ InNextRound(j, b)
                      /\ calls[a].batch \o calls[b].batch = calls[j].batch
                      /\ {Len(calls[a].batch), Len(calls[b].batch)} =
                            {Len(calls[j].batch) \div 2,
                             Len(calls[j].batch) - Len(calls[j].batch) \div 2}

\* no submitted list holds an indicator with a type and one without
NoMixedBatch ==
    \A k \in 1..Len(calls) :
        \A x, y \in ToSet(calls[k].batch) : HasType(x) <=> HasType(y)

\* every list that held the indicator x failed
NeverSucceeded(x) ==
    \A k \in 1..Len(calls) : x \in ToSet(calls[k].batch) => ~calls[k].ok

\* C26: no submitted list mixes indicators with and without a type, and
\* what becomes of an indicator does not depend on its type: of an
\* indicator with a type and one without, both submitted and both only in
\* lists that failed, either both are returned as failures or neither is.
C26_TypeOnlyGroups ==
    /\ NoMixedBatch
    /\ Returned =>
          \A x, y \in DedupedInput :
              (/\ HasType(x) /\ ~HasType(y)
               /\ Submitted(x) /\ Submitted(y)
               /\ NeverSucceeded(x) /\ NeverSucceeded(y)) =>
                  (x \in ToSet(failures) <=> y \in ToSet(failures))

\* C29: an indicator of a list that get_indicators_metadata answered is in
\* no list submitted later; when the function has returned, the succeeded
\* list holds each indicator at most once and no indicator of an answered
\* list is among the failures.
C29_SucceededNotResubmitted ==
    /\ \A j, k \in 1..Len(calls) :
          (j < k /\ calls[j].ok) =>
              ToSet(calls[j].batch) \cap ToSet(calls[k].batch) = {}
    /\ Returned =>
          /\ NoRepeats(succeeded)
          /\ \A j \in 1..Len(calls) :
                calls[j].ok =>
                    ToSet(calls[j].batch) \cap ToSet(failures) = {}

\* the i-th round is the first round of its group
FirstRoundOfGroup(i) == i = 1 \/ rounds[i - 1].l # rounds[i].l

\* C30: the two groups are processed independently: the first round of
\* each group, the untyped group as well, cuts the group into chunks of the
\* full maximum size, whatever happened to the group before it.
C30_GroupsIndependent ==
    \A i \in 1..Len(rounds) :
        FirstRoundOfGroup(i) =>
            rounds[i].n = MAX_N_INDICS_PER_LIST_SUBMITTED_FOR_METADATA

(***************************************************************************)
(* get_time_based_page_generator, further properties.                      *)
(***************************************************************************)

\* C27: within one run, the to_time of successive calls of get_page never
\* increases, the from_time is the same in every call, and every call of
\* get_next_to_time is given the page just fetched and the to_time that
\* fetched it.
C27_WindowsOnlyMoveBack ==
    /\ \A i \in 1..Len(get_page_calls) :
          /\ get_page_calls[i].from_time = get_page_calls[1].from_time
          /\ i > 1 =>
                Val(get_page_calls[i].to_time)
                    <= Val(get_page_calls[i - 1].to_time)
    /\ \A i \in 1..Len(next_to_time_calls) :
          /\ i <= Len(emitted)
          /\ next_to_time_calls[i].result = Some(emitted[i])
          /\ next_to_time_calls[i].to_time = get_page_calls[i].to_time

C27_Witness ==
    /\ Len(get_page_calls) = 3
    /\ Len(next_to_time_calls) = 2
    /\ Val(get_page_calls[2].to_time) < Val(get_page_calls[1].to_time)
    /\ Val(get_page_calls[3].to_time) < Val(get_page_calls[2].to_time)
    /\ emitted[1] # emitted[2]

\* C28 (its second half): when no result of get_next_to_time was later
\* than the to_time it was given, no two consecutive calls of get_page
\* have the same window (from_time, to_time).
C28_NoRepeatedWindow ==
    (\A i \in 1..Len(next_to_time_calls) :
        ~ReturnedLater(next_to_time_calls[i])) =>
        \A i \in 1..Len(get_page_calls) :
            i > 1 =>
                <<get_page_calls[i].from_time, get_page_calls[i].to_time>>
                  # <<get_page_calls[i - 1].from_time,
                      get_page_calls[i - 1].to_time>>

(***************************************************************************)
(* utils.normalize_timestamp (src/trustar/utils.py, lines 17-70) for an    *)
(* argument that is an int.                                                *)
(***************************************************************************)
\* line 44 has 10000000000; the model runs the same code with a small limit
SECONDS_LIMIT == 10
MaxDelta == 4      \* the argument is up to MaxDelta away from 0, the limit, now

\* what the function returns: an int, or the string of datetime.isoformat()
IntResult(n) == [type |-> "int", value |-> n]
IsoResult(t) == [type |-> "str", value |-> t]

\* lines 30-70 for isinstance(date_time, int):
\*   30-31  a false argument (0) is returned as it is;
\*   44-45  an argument below the limit is multiplied by 1000;
\*   48-49  a time after current_time raises ValueError inside the try;
\*   58-61  the handler logs it and sets datetime_dt = datetime.now();
\*   64-70  the local time is made UTC and returned as isoformat();
\*   51     otherwise the int is returned
normalize_timestamp(dt, now_ms) ==
    IF dt = 0
    THEN IntResult(dt)
    ELSE LET ms == IF dt < SECONDS_LIMIT THEN dt * 1000 ELSE dt
         IN  IF ms > now_ms THEN IsoResult(now_ms) ELSE IntResult(ms)

\* normalize_timestamp is about to be called with an int
InitNormalize ==
    /\ RobustIdle
    /\ TimeIdle
    /\ PagesIdle
    /\ TwoIdle
    /\ current_time \in {get_current_time_millis(s) : s \in 1..MaxClock}
    /\ date_time \in (-MaxDelta..(SECONDS_LIMIT + MaxDelta))
                     \cup {current_time + d : d \in -MaxDelta..MaxDelta}
    /\ normalized = None

\* the call returns
Normalize ==
    /\ normalized = None
    /\ normalized' = Some(normalize_timestamp(date_time, current_time))
    /\ UNCHANGED <<date_time, current_time, robustVars, timeVars, pageVars,
                   twoVars>>

NextNormalize == Normalize

SpecNormalize == InitNormalize /\ [][NextNormalize]_vars

\* C22: for an int argument normalize_timestamp returns an int, the
\* argument times 1000 when it is below the limit of line 44 and the
\* argument itself otherwise, and never a string.
C22_IntInIntOut ==
    normalized # None =>
        /\ Val(normalized).type = "int"
        /\ Val(normalized).value =
              IF date_time < SECONDS_LIMIT THEN date_time * 1000
              ELSE date_time

(***************************************************************************)
(* Two generators made by two calls of get_time_based_page_generator       *)
(* (src/trustar/utils.py, lines 97-130), pulled in any order.  Each call   *)
(* has its own parameters and local variables (from_time, to_time,         *)
(* result); the function reads no module variable but DAY and the clock.   *)
(* To compare a generator with itself pulled alone, its collaborators are  *)
(* fixed functions: get_next_to_time is one of four functions of to_time,  *)
(* and get_page answers by the window and raises on one chosen call.       *)
(***************************************************************************)
MaxPullsEach == 3    \* pulls of each of the two consumers

\* the functions get_next_to_time of the two callers
NextToTimeFunctions == {"none", "same", "minus1", "plus1"}

\* line 123: new_to_time = get_next_to_time(result, to_time)
ApplyNextToTime(fn, res, to) ==
    CASE fn = "none" -> None
      [] fn = "same" -> to
      [] fn = "minus1" -> Some(Val(to) - 1)
      [] OTHER -> Some(Val(to) + 1)

\* line 119: what get_page returns for a window
PageOf(from, to) == IF Val(to) % 2 = 0 THEN "page1" ELSE "page2"

\* the arguments and collaborators of one call of the generator function:
\* from_time, to_time, the clock at its first next(), its get_next_to_time,
\* and the call of get_page that raises (0: none)
GenInputs ==
    [from_time : {None, Some(0), Some(MaxTime)},
     to_time : {None, Some(MaxTime)},
     clock : {get_current_time_millis(MaxClock)},
     fn : NextToTimeFunctions,
     fails_at : 0..2]

\* line 97: the frame of a generator that has not run
Created(in) ==
    [gen |-> "created", from_time |-> in.from_time, to_time |-> in.to_time,
     page_result |-> None, get_page_calls |-> <<>>, emitted |-> <<>>,
     error |-> None]

\* lines 117-121, from the test of the loop to the yield, the return or the
\* exception of get_page
FromLoopTest(fr, in, from, to) ==
    IF LoopTest(from, to)
    THEN IF Len(fr.get_page_calls) + 1 = in.fails_at
         THEN [fr EXCEPT !.from_time = from, !.to_time = to,
                         !.get_page_calls =
                             CallGetPage(@, from, to, Some("HTTPError")),
                         !.gen = GetPageRaised("HTTPError").gen,
                         !.error = GetPageRaised("HTTPError").error]
         ELSE [fr EXCEPT !.from_time = from, !.to_time = to,
                         !.get_page_calls = CallGetPage(@, from, to, None),
                         !.page_result = Some(PageOf(from, to)),
                         !.emitted = Append(@, PageOf(from, to)),
                         !.gen = "suspended"]
    ELSE [fr EXCEPT !.from_time = from, !.to_time = to, !.gen = "done"]

\* one next() on a generator: lines 109-121 on the first one, lines 123-130
\* and 117-121 on a later one, nothing on a generator that has ended
NextOf(fr, in) ==
    CASE fr.gen = "created" ->
            LET to == DefaultToTime(fr.to_time, in.clock)
            IN  FromLoopTest(fr, in, DefaultFromTime(fr.from_time, to), to)
      [] fr.gen = "suspended" ->
            LET new_to_time ==
                    ApplyNextToTime(in.fn, fr.page_result, fr.to_time)
            IN  IF Increases(new_to_time, fr.to_time)
                THEN [fr EXCEPT !.gen = "raised",
                                !.error = Some(ToTimeIncreased)]
                ELSE FromLoopTest(fr, in, fr.from_time, new_to_time)
      [] OTHER -> fr

\* where the local variables of the generator g live: in its own frame
SharedFrame(g) == 1

Frame(g) == g

\* two generator objects exist and none of their bodies has run
InitTwo ==
    /\ RobustIdle
    /\ TimeIdle
    /\ PagesIdle
    /\ NormIdle
    /\ inputs \in [1..2 -> GenInputs]
    /\ frames = [g \in 1..2 |-> Created(inputs[g])]
    /\ pulls = [g \in 1..2 |-> 0]

\* the consumer of the generator g pulls
PullOf(g) ==
    /\ pulls[g] < MaxPullsEach
    /\ frames' = [frames EXCEPT
                     ![Frame(g)] = NextOf(frames[Frame(g)], inputs[g])]
    /\ pulls' = [pulls EXCEPT ![g] = @ + 1]
    /\ UNCHANGED <<inputs, robustVars, timeVars, pageVars, normVars>>

PullFirst == PullOf(1)

PullSecond == PullOf(2)

NextTwo ==
    \/ PullFirst
    \/ PullSecond

SpecTwo == InitTwo /\ [][NextTwo]_vars

\* the frame of a generator with these inputs after n pulls, were it the
\* only generator
RECURSIVE Alone(_, _)
Alone(in, n) ==
    IF n = 0 THEN Created(in) ELSE NextOf(Alone(in, n - 1), in)

====
